---- MODULE Spec2Model ----
(***************************************************************************)
(* Change detection and cursor tracking of the Foroactivo Discord monitor. *)
(*                                                                         *)
(*   src/src/state_manager.py   StateManager: the cursor store             *)
(*   src/src/monitor.py         ForoactivoMonitor: one run over monitors   *)
(*   src/src/discord_notifier.py  batch sends (their outcomes)             *)
(*   src/src/foroactivo_client.py login / fetch (their outcomes)           *)
(*                                                                         *)
(* Two specifications share the store:                                     *)
(*   SpecSM  the StateManager methods called directly, on any arguments;   *)
(*   Spec    ForoactivoMonitor.run, process after process, over a forum    *)
(*           monitor and a thread monitor.                                 *)
(***************************************************************************)
EXTENDS Integers, Sequences, FiniteSets, TLC

(***************************************************************************)
(* Bounds of the model.                                                    *)
(***************************************************************************)
\* longest list handed to a StateManager method in SpecSM
MaxLen == 3
\* processes (runs of the monitor) in Spec
MaxRuns == 3
\* longest forum listing a fetch returns in Spec
MaxThreads == 2
\* posts ever written to the monitored thread in Spec
MaxPosts == 3

ThreadIds == {"A", "B", "C", "D"}
\* the threads that show up in the monitored forum section in Spec
ListedThreadIds == {"A", "B"}
PostIds == {"p1", "p2", "p3"}
\* the posts of the monitored thread, in posting order
AllPostNames == <<"p1", "p2", "p3", "p4", "p5">>

\* monitor ids (keys of the store)
ForumId == "f1"
ThreadId == "m1"

\* logical instants for datetime.utcnow() in SpecSM
Times == {1, 2}

(***************************************************************************)
(* Python values.                                                          *)
(***************************************************************************)
None == "None"
EmptyDict == <<>>

Range(s) == {s[i] : i \in 1..Len(s)}
Last(s) == s[Len(s)]

\* d.get(k, default)
dict_get(d, k, default) == IF k \in DOMAIN d THEN d[k] ELSE default
\* d[k] = v
dict_set(d, k, v) == [x \in (DOMAIN d) \cup {k} |-> IF x = k THEN v ELSE d[x]]
\* s[i0:]  (i0 is a Python index, counted from 0)
slice_from(s, i0) == SubSeq(s, i0 + 1, Len(s))

SeqsUpTo(S, n) == UNION {[1..k -> S] : k \in 0..n}
\* a fetched thread / post record; detection reads only its id
ThreadRec(t) == [id |-> t]
PostRec(p) == [id |-> p]
ThreadLists == SeqsUpTo({ThreadRec(t) : t \in ThreadIds}, MaxLen)
PostLists == SeqsUpTo({PostRec(p) : p \in PostIds}, MaxLen)
IdLists == SeqsUpTo(ThreadIds, MaxLen)

(***************************************************************************)
(* StateManager (state_manager.py).  st is self.state, a dict.             *)
(***************************************************************************)
get_last_post_id(st, thread_id) ==
    LET thread_state == dict_get(st, thread_id, EmptyDict)
    IN  dict_get(thread_state, "last_post_id", None)

update_thread_state(st, thread_id, last_post_id, total_posts, utcnow) ==
    dict_set(st, thread_id,
             [last_post_id |-> last_post_id,
              last_checked_at |-> utcnow,
              total_posts_seen |-> total_posts])

\* mutant: the membership test inverted (in for not in)
get_new_threads_inverted(st, forum_id, all_threads) ==
    IF all_threads = <<>> THEN <<>>
    ELSE LET forum_state == dict_get(st, forum_id, EmptyDict)
             seen_thread_ids == Range(dict_get(forum_state, "seen_thread_ids", <<>>))
         IN  SelectSeq(all_threads, LAMBDA thread : thread.id \in seen_thread_ids)

\* mutant: the stored list read as a cursor, its first id marking where the
\* already seen threads begin
get_new_threads_before_top(st, forum_id, all_threads) ==
    IF all_threads = <<>> THEN <<>>
    ELSE LET forum_state == dict_get(st, forum_id, EmptyDict)
             seen_thread_ids == dict_get(forum_state, "seen_thread_ids", <<>>)
             at == IF seen_thread_ids = <<>> THEN {}
                   ELSE {i \in 1..Len(all_threads) : all_threads[i].id = seen_thread_ids[1]}
         IN  IF at = {} THEN all_threads
             ELSE SubSeq(all_threads, 1, (CHOOSE i \in at : \A j \in at : i <= j) - 1)

get_new_threads(st, forum_id, all_threads) ==
    IF all_threads = <<>> THEN <<>>
    ELSE LET forum_state == dict_get(st, forum_id, EmptyDict)
             seen_thread_ids == Range(dict_get(forum_state, "seen_thread_ids", <<>>))
         IN  SelectSeq(all_threads, LAMBDA thread : thread.id \notin seen_thread_ids)

\* mutant: the new ids merged into the ids already stored
update_forum_state_union(st, forum_id, thread_ids, utcnow) ==
    LET old == dict_get(dict_get(st, forum_id, EmptyDict), "seen_thread_ids", <<>>)
        merged == old \o SelectSeq(thread_ids, LAMBDA t : t \notin Range(old))
    IN  dict_set(st, forum_id,
                 [seen_thread_ids |-> merged,
                  last_checked_at |-> utcnow,
                  total_threads |-> Len(merged)])

\* mutant: a listing shorter than the stored one does not replace it
update_forum_state_keeps_longer(st, forum_id, thread_ids, utcnow) ==
    LET old == dict_get(dict_get(st, forum_id, EmptyDict), "seen_thread_ids", <<>>)
        kept == IF Len(thread_ids) < Len(old) THEN old ELSE thread_ids
    IN  dict_set(st, forum_id,
                 [seen_thread_ids |-> kept,
                  last_checked_at |-> utcnow,
                  total_threads |-> Len(kept)])

\* mutant: the store replaced by the one cursor
update_forum_state_alone(st, forum_id, thread_ids, utcnow) ==
    dict_set(EmptyDict, forum_id,
             [seen_thread_ids |-> thread_ids,
              last_checked_at |-> utcnow,
              total_threads |-> Len(thread_ids)])

update_forum_state(st, forum_id, thread_ids, utcnow) ==
    dict_set(st, forum_id,
             [seen_thread_ids |-> thread_ids,
              last_checked_at |-> utcnow,
              total_threads |-> Len(thread_ids)])

\* mutant: the loop without its break, which keeps the last match
RECURSIVE find_last_post_index_nobreak(_, _, _)
find_last_post_index_nobreak(all_posts, last_post_id, i0) ==
    IF i0 >= Len(all_posts) THEN -1
    ELSE LET later == find_last_post_index_nobreak(all_posts, last_post_id, i0 + 1) IN
         IF later # -1 THEN later
         ELSE IF all_posts[i0 + 1].id = last_post_id THEN i0 ELSE -1

\* the for/break loop of get_new_posts: the Python index of the first post
\* whose id is last_post_id, from Python index i0 on; -1 when there is none
RECURSIVE find_last_post_index(_, _, _)
find_last_post_index(all_posts, last_post_id, i0) ==
    IF i0 >= Len(all_posts) THEN -1
    ELSE IF all_posts[i0 + 1].id = last_post_id THEN i0
    ELSE find_last_post_index(all_posts, last_post_id, i0 + 1)

\* mutant: the first run returns every post instead of the last one
get_new_posts_flood(st, thread_id, all_posts) ==
    IF all_posts = <<>> THEN [ret |-> <<>>, log |-> "nothing"]
    ELSE LET last_post_id == get_last_post_id(st, thread_id) IN
         IF last_post_id = None
         THEN [ret |-> all_posts, log |-> "first_time"]
         ELSE LET last_post_index == find_last_post_index(all_posts, last_post_id, 0) IN
              IF last_post_index = -1
              THEN [ret |-> <<Last(all_posts)>>, log |-> "warning"]
              ELSE LET new_posts == slice_from(all_posts, last_post_index + 1)
                   IN  [ret |-> new_posts,
                        log |-> IF new_posts # <<>> THEN "found" ELSE "no_new"]

\* mutant: a stale cursor is re-baselined without the warning
get_new_posts_silent(st, thread_id, all_posts) ==
    IF all_posts = <<>> THEN [ret |-> <<>>, log |-> "nothing"]
    ELSE LET last_post_id == get_last_post_id(st, thread_id) IN
         IF last_post_id = None
         THEN [ret |-> <<Last(all_posts)>>, log |-> "first_time"]
         ELSE LET last_post_index == find_last_post_index(all_posts, last_post_id, 0) IN
              IF last_post_index = -1
              THEN [ret |-> <<Last(all_posts)>>, log |-> "found"]
              ELSE LET new_posts == slice_from(all_posts, last_post_index + 1)
                   IN  [ret |-> new_posts,
                        log |-> IF new_posts # <<>> THEN "found" ELSE "no_new"]

\* get_new_posts: ret is the returned list, log the branch's printed message
get_new_posts(st, thread_id, all_posts) ==
    IF all_posts = <<>> THEN [ret |-> <<>>, log |-> "nothing"]
    ELSE LET last_post_id == get_last_post_id(st, thread_id) IN
         IF last_post_id = None
         THEN [ret |-> <<Last(all_posts)>>, log |-> "first_time"]
         ELSE LET last_post_index == find_last_post_index(all_posts, last_post_id, 0) IN
              IF last_post_index = -1
              THEN [ret |-> <<Last(all_posts)>>, log |-> "warning"]
              ELSE LET new_posts == slice_from(all_posts, last_post_index + 1)
                   IN  [ret |-> new_posts,
                        log |-> IF new_posts # <<>> THEN "found" ELSE "no_new"]

(***************************************************************************)
(* The state file.  json.dump writes a document and json.load reads one    *)
(* back; a document is a tagged value: obj (members by key), arr, str, num. *)
(***************************************************************************)
\* a Python list where a mapping is expected: json.load of a document whose
\* top level is an array ({} and [] are both <<>> here, so the list is marked)
PyList(items) == [list |-> items]
IsMapping(v) == "list" \notin DOMAIN v

\* json.dump of one cursor: a list becomes an array of strings, a count a
\* number, an id or an isoformat timestamp a string
dump_cursor(c) ==
    [f \in DOMAIN c |->
        IF f = "seen_thread_ids"
        THEN [arr |-> [i \in 1..Len(c[f]) |-> [str |-> c[f][i]]]]
        ELSE IF f \in {"total_threads", "total_posts_seen"}
        THEN [num |-> c[f]]
        ELSE [str |-> c[f]]]

\* json.dump(self.state, f, indent=2, ensure_ascii=False)
json_dump(st) ==
    IF IsMapping(st)
    THEN [obj |-> [k \in DOMAIN st |-> [obj |-> dump_cursor(st[k])]]]
    ELSE [arr |-> [i \in 1..Len(st.list) |-> [str |-> st.list[i]]]]

\* mutant: an array read back last element first
load_value_reversed(v) ==
    IF "arr" \in DOMAIN v
    THEN [i \in 1..Len(v.arr) |-> v.arr[Len(v.arr) + 1 - i].str]
    ELSE IF "num" \in DOMAIN v THEN v.num
    ELSE v.str

\* json.load below the top level, by the tag of the value
load_value(v) ==
    IF "arr" \in DOMAIN v THEN [i \in 1..Len(v.arr) |-> v.arr[i].str]
    ELSE IF "num" \in DOMAIN v THEN v.num
    ELSE v.str

\* json.load(f)
json_load(doc) ==
    IF "obj" \in DOMAIN doc
    THEN [k \in DOMAIN doc.obj |->
             [f \in DOMAIN doc.obj[k].obj |-> load_value(doc.obj[k].obj[f])]]
    ELSE PyList([i \in 1..Len(doc.arr) |-> doc.arr[i].str])

\* what stands for a call that raises instead of returning
Raised == [raised |-> "OSError"]
HasRaised(v) == "raised" \in DOMAIN v

\* StateManager.load_state: the value json.load gives; an absent file and a
\* file that does not parse or cannot be read both give the empty mapping.
\* For a path that cannot be resolved (a symbolic link to a name that is too
\* long) Path.exists(), outside the try, raises OSError and self.state is
\* left as it was
load_state(f) ==
    IF f.status = "unresolvable" THEN Raised
    ELSE IF f.status = "absent" THEN EmptyDict
    ELSE IF f.status \in {"corrupt", "unreadable"} THEN EmptyDict
    ELSE json_load(f.content)

\* mutant: a failed open reported as success
save_state_always_true(f, st, fault) ==
    IF fault = "none" THEN [file |-> [status |-> "ok", content |-> json_dump(st)], ret |-> TRUE]
    ELSE IF fault = "open" THEN [file |-> f, ret |-> TRUE]
    ELSE [file |-> [status |-> "corrupt", content |-> json_dump(EmptyDict)], ret |-> FALSE]

\* StateManager.save_state: the file afterwards and the returned boolean.
\* fault is where the write raises: "none", "open" (mkdir or open fails, the
\* file is untouched) or "write" (open(..., "w") has truncated the file and
\* json.dump raises: a partial document is left)
save_state(f, st, fault) ==
    IF f.status = "unresolvable" THEN [file |-> f, ret |-> FALSE]
    ELSE IF fault = "none" THEN [file |-> [status |-> "ok", content |-> json_dump(st)], ret |-> TRUE]
    ELSE IF fault = "open" THEN [file |-> f, ret |-> FALSE]
    ELSE [file |-> [status |-> "corrupt", content |-> json_dump(EmptyDict)], ret |-> FALSE]

\* DiscordNotifier.send_batch_notifications / send_batch_thread_notifications
\* on the per-item results of send_notification (TRUE: 204): the count returned
\* mutant: every send counted, whatever it returned
send_batch_counts_attempts(results) == Len(results)

RECURSIVE send_batch(_)
send_batch(results) ==
    IF results = <<>> THEN 0
    ELSE (IF Head(results) THEN 1 ELSE 0) + send_batch(Tail(results))

\* all_thread_ids = [thread["id"] for thread in all_threads]
ids_of(all_threads) == [i \in 1..Len(all_threads) |-> all_threads[i].id]

(***************************************************************************)
(* Configuration (config/threads.json): one forum monitor and one thread   *)
(* monitor; a field is TRUE when it is present and non-empty, webhook_url  *)
(* when the webhook environment variable is set; id is None when missing.  *)
(* webhook_env is the kind of value given as discord_webhook_env: the name *)
(* of the variable, a string, or by mistake a number: "number" for one     *)
(* that is not zero (123, 1.5), "zero" for 0, which Python takes as false. *)
(***************************************************************************)
Monitor(id, type, forum_url, target_url, webhook_url) ==
    [id |-> id, type |-> type, forum_url |-> forum_url,
     target_url |-> target_url, webhook_url |-> webhook_url,
     webhook_env |-> "string"]

ForumMonitor == Monitor(ForumId, "forum", TRUE, TRUE, TRUE)
ThreadMonitor == Monitor(ThreadId, "thread", TRUE, TRUE, TRUE)
\* a monitor whose discord_webhook_env is a number
MistypedMonitor == [Monitor("x1", "thread", TRUE, TRUE, TRUE) EXCEPT !.webhook_env = "number"]
\* a monitor whose discord_webhook_env is 0
ZeroMonitor == [Monitor("x1", "thread", TRUE, TRUE, TRUE) EXCEPT !.webhook_env = "zero"]

Configs ==
    { <<ForumMonitor, ThreadMonitor>>,
      <<Monitor(ForumId, "forum", TRUE, FALSE, TRUE), ThreadMonitor>>,
      <<Monitor(ForumId, "forum", FALSE, TRUE, TRUE),
        Monitor(ThreadId, "thread", TRUE, TRUE, FALSE)>>,
      <<Monitor(None, "thread", TRUE, TRUE, TRUE), ForumMonitor>> }

\* the listings get_forum_threads can return: one entry per container of the
\* page that parses; two containers linking to one topic give its id twice
FetchedThreadLists ==
    SeqsUpTo({ThreadRec(t) : t \in ListedThreadIds}, MaxThreads)
\* a page on which each post is matched by two elements, the inner one taking
\* the id of the outer: every post is listed twice
Doubled(s) == [i \in 1..(2 * Len(s)) |-> s[(i + 1) \div 2]]

(***************************************************************************)
(* State.                                                                  *)
(***************************************************************************)
VARIABLES
    state,      \* StateManager.state of the live process
    now,        \* the clock datetime.utcnow() reads
    call,       \* SpecSM: the StateManager call in progress, with its result
    file,       \* the state file on disk
    config,     \* self.config["monitors"], the enabled monitors
    run,        \* processes started so far
    pc,         \* where the process is in run() and in the monitor's handler
    idx,        \* Python index into enabled_monitors of the current monitor
    all_items,  \* all_threads / all_posts of the current monitor
    new_items,  \* new_threads / new_posts of the current monitor
    attempts,   \* sends begun by the current monitor's batch
    notifications_sent,  \* what the last handler returned
    total_notifications, \* run()'s running total
    committed,  \* the current monitor's update_*_state has been called
    outcome,    \* how the last handler ended
    steps,      \* the pipeline steps the current monitor has attempted, in order
    results,    \* what each send of the current monitor's batch returned
    loads,      \* load_state calls of this process
    save_returns,  \* what each save_state call of this process returned
    exit_code,  \* what run() returned, once it has
    delivered,  \* per monitor handled in this run, the sends of its completed
                \* batch that returned True
    error_notified,  \* what the error notification of the current monitor did, if attempted
    thread_done,   \* some process has run the thread monitor's pipeline to its commit
    thread_posts,  \* the posts of the monitored thread on the forum
    posted,        \* how many posts were ever written to it
    returned,      \* per post (by posting number) the runs that returned it as new
    baseline,      \* posts written when the first snapshot was fetched
    last_fetched,  \* posts written when the latest snapshot was diffed
    steady,     \* no snapshot was empty or lost a post, no save or load failed;
                \* returned, baseline and last_fetched are kept while it holds
    npc,           \* where the notifier's batch call is
    variant,       \* which of the two batch methods was called
    batch,         \* the items it was given
    loop_i,        \* i of its loop: the items already handled
    success_count, \* its counter
    attempted,     \* the items a send was called for, in order
    send_returns,  \* what each send that returned, returned
    trace,         \* the sends and pauses of the batch, in order
    last_send,     \* the POSTs, the wait and the end of the latest send
    batch_ret      \* what the batch call returned, once it has

smVars == <<state, now, call>>
envVars == <<thread_posts, posted>>
histVars == <<returned, baseline, last_fetched, steady>>
localVars == <<all_items, new_items, attempts, committed, steps, results>>
endVars == <<loads, save_returns, exit_code>>
runVars == <<file, config, run, pc, idx, notifications_sent, total_notifications,
             outcome, loads, save_returns, exit_code, delivered>>
procVars == <<config, run, pc, idx, all_items, new_items, attempts,
              notifications_sent, total_notifications, committed, outcome,
              steps, results, loads, save_returns, exit_code, delivered, thread_done,
          error_notified,
              thread_posts, posted, returned, baseline, last_fetched, steady>>
orchVars == <<file, config, run, pc, idx, all_items, new_items, attempts,
              notifications_sent, total_notifications, committed, outcome,
              steps, results, loads, save_returns, exit_code, delivered, thread_done,
          error_notified,
              thread_posts, posted, returned, baseline, last_fetched, steady>>
vars == <<state, now, call, file, config, run, pc, idx, all_items, new_items,
          attempts, notifications_sent, total_notifications, committed, outcome,
          steps, results, loads, save_returns, exit_code, delivered, thread_done,
          error_notified,
          thread_posts, posted, returned, baseline, last_fetched, steady,
          npc, variant, batch, loop_i, success_count, attempted, send_returns,
          trace, last_send, batch_ret>>
notifierVars == <<npc, variant, batch, loop_i, success_count, attempted,
                  send_returns, trace, last_send, batch_ret>>

NoCall == [op |-> "none", id |-> None, arg |-> <<>>, ret |-> <<>>, log |-> "nothing",
           prev |-> EmptyDict]
NoFile == [status |-> "absent", content |-> json_dump(EmptyDict)]

(***************************************************************************)
(* DiscordNotifier (discord_notifier.py).  A response of the webhook is    *)
(* its status and, for a 429, its body: a JSON object with or without      *)
(* retry_after, a JSON array, or text that is not JSON.  NoResponse is     *)
(* requests.post raising a RequestException (timeout, connection error).   *)
(***************************************************************************)
DefaultRetryAfter == 5
BatchSize == 4
MaxBatch == 9

Response(status, json, retry_after) == [status |-> status, json |-> json, retry_after |-> retry_after]
NoResponse == Response(0, "none", <<>>)
FirstResponses ==
    { Response(204, "none", <<>>), Response(500, "none", <<>>), NoResponse,
      Response(429, "object", <<1>>), Response(429, "object", <<>>),
      Response(429, "object", <<-1>>), Response(429, "array", <<>>),
      Response(429, "invalid", <<>>) }
SecondResponses ==
    { Response(204, "none", <<>>), Response(500, "none", <<>>), NoResponse,
      Response(429, "object", <<1>>) }

\* the body of both send methods on the responses of the first and of the
\* retry POST: the POSTs made, the wait before the retry, the value returned,
\* or raised when an exception other than RequestException leaves the method
post_and_retry(first, second) ==
    LET one(ret, raised) == [posts |-> <<first>>, slept |-> <<>>, ret |-> ret, raised |-> raised]
    IN  IF first = NoResponse THEN one(FALSE, FALSE)
        ELSE IF first.status = 204 THEN one(TRUE, FALSE)
        ELSE IF first.status = 429 THEN
            \* response.json() of text that is not JSON raises requests'
            \* JSONDecodeError, a RequestException; .get of an array raises
            \* AttributeError; time.sleep of a negative number raises ValueError
            IF first.json = "invalid" THEN one(FALSE, FALSE)
            ELSE IF first.json = "array" THEN one(FALSE, TRUE)
            ELSE LET retry_after == IF first.retry_after = <<>> THEN DefaultRetryAfter
                                    ELSE first.retry_after[1]
                 IN  IF retry_after < 0 THEN one(FALSE, TRUE)
                     ELSE [posts |-> <<first, second>>, slept |-> <<retry_after>>,
                           ret |-> second.status = 204, raised |-> FALSE]
        ELSE one(FALSE, FALSE)

send_thread_notification(first, second) == post_and_retry(first, second)
send_notification(first, second) == post_and_retry(first, second)

\* mutant: a pause after every fourth send, the last of the batch included
pauses_after_every_fourth(i, n) == (i + 1) % BatchSize = 0

\* if (i + 1) % 4 == 0 and i + 1 < len(posts)
pauses_after(i, n) == (i + 1) % BatchSize = 0 /\ i + 1 < n

NoSend == [posts |-> <<>>, slept |-> <<>>, ret |-> FALSE, raised |-> FALSE]

NotifierIdle ==
    /\ npc = "idle"
    /\ variant = "none"
    /\ batch = <<>>
    /\ loop_i = 0
    /\ success_count = 0
    /\ attempted = <<>>
    /\ send_returns = <<>>
    /\ trace = <<>>
    /\ last_send = NoSend
    /\ batch_ret = <<>>

\* the memory of the orchestrator before its first process
InitMemory ==
    /\ run = 0
    /\ pc = "idle"
    /\ idx = 0
    /\ all_items = <<>>
    /\ new_items = <<>>
    /\ attempts = 0
    /\ notifications_sent = 0
    /\ total_notifications = 0
    /\ committed = FALSE
    /\ outcome = "none"
    /\ steps = <<>>
    /\ results = <<>>
    /\ loads = 0
    /\ save_returns = <<>>
    /\ exit_code = <<>>
    /\ delivered = <<>>
    /\ thread_done = FALSE
    /\ error_notified = "none"
    /\ thread_posts = <<PostRec(AllPostNames[1])>>
    /\ posted = 1
    /\ returned = [i \in 1..MaxPosts |-> 0]
    /\ baseline = 0
    /\ last_fetched = 0
    /\ steady = TRUE

\* the orchestrator before its first process
InitProc ==
    /\ config \in Configs
    /\ InitMemory

InitRun ==
    /\ file = NoFile
    /\ InitProc

(***************************************************************************)
(* SpecSM: the StateManager methods called directly on the key f1 of a     *)
(* store that may already hold another monitor's cursor under m1.          *)
(***************************************************************************)
ForeignCursor == [last_post_id |-> "p1", last_checked_at |-> 1, total_posts_seen |-> 1]

InitSM ==
    /\ state \in {EmptyDict, dict_set(EmptyDict, ThreadId, ForeignCursor)}
    /\ now = 1
    /\ call = NoCall
    /\ InitRun
    /\ config = <<ForumMonitor, ThreadMonitor>>
    /\ NotifierIdle

CallUpdateForumState ==
    /\ call.op = "none"
    /\ \E thread_ids \in IdLists :
        /\ state' = update_forum_state(state, ForumId, thread_ids, now)
        /\ call' = [op |-> "update_forum_state", id |-> ForumId, arg |-> thread_ids,
                    ret |-> <<>>, log |-> "updated",
                    prev |-> dict_get(state, ForumId, EmptyDict)]
    /\ UNCHANGED now
    /\ UNCHANGED <<orchVars, notifierVars>>

CallUpdateThreadState ==
    /\ call.op = "none"
    /\ \E last_post_id \in PostIds, total_posts \in 0..MaxLen :
        /\ state' = update_thread_state(state, ForumId, last_post_id, total_posts, now)
        /\ call' = [op |-> "update_thread_state", id |-> ForumId,
                    arg |-> <<last_post_id, total_posts>>,
                    ret |-> <<>>, log |-> "updated",
                    prev |-> dict_get(state, ForumId, EmptyDict)]
    /\ UNCHANGED now
    /\ UNCHANGED <<orchVars, notifierVars>>

CallGetNewThreads ==
    /\ call.op = "none"
    /\ \E id \in {ForumId, ThreadId}, all_threads \in ThreadLists :
        call' = [op |-> "get_new_threads", id |-> id, arg |-> all_threads,
                 ret |-> get_new_threads(state, id, all_threads),
                 log |-> "nothing", prev |-> dict_get(state, id, EmptyDict)]
    /\ UNCHANGED <<state, now>>
    /\ UNCHANGED <<orchVars, notifierVars>>

\* mutant: the read advances the cursor to the last post it was given
CallGetNewPostsCommits ==
    /\ call.op = "none"
    /\ \E id \in {ForumId, ThreadId}, all_posts \in PostLists :
        LET r == get_new_posts(state, id, all_posts) IN
        /\ call' = [op |-> "get_new_posts", id |-> id, arg |-> all_posts,
                    ret |-> r.ret, log |-> r.log,
                    prev |-> dict_get(state, id, EmptyDict)]
        /\ state' = IF all_posts = <<>> THEN state
                    ELSE update_thread_state(state, id, Last(all_posts).id,
                                             Len(all_posts), now)
    /\ UNCHANGED now
    /\ UNCHANGED <<orchVars, notifierVars>>

CallGetNewPosts ==
    /\ call.op = "none"
    /\ \E id \in {ForumId, ThreadId}, all_posts \in PostLists :
        LET r == get_new_posts(state, id, all_posts) IN
        call' = [op |-> "get_new_posts", id |-> id, arg |-> all_posts,
                 ret |-> r.ret, log |-> r.log,
                 prev |-> dict_get(state, id, EmptyDict)]
    /\ UNCHANGED <<state, now>>
    /\ UNCHANGED <<orchVars, notifierVars>>

CallGetLastPostId ==
    /\ call.op = "none"
    /\ \E id \in {ForumId, ThreadId} :
        call' = [op |-> "get_last_post_id", id |-> id, arg |-> <<>>,
                 ret |-> <<get_last_post_id(state, id)>>, log |-> "nothing",
                 prev |-> dict_get(state, id, EmptyDict)]
    /\ UNCHANGED <<state, now>>
    /\ UNCHANGED <<orchVars, notifierVars>>

\* the call returns to its caller
Return ==
    /\ call.op # "none"
    /\ call' = NoCall
    /\ UNCHANGED <<state, now>>
    /\ UNCHANGED <<orchVars, notifierVars>>

Tick ==
    /\ call.op = "none"
    /\ now + 1 \in Times
    /\ now' = now + 1
    /\ UNCHANGED <<state, call>>
    /\ UNCHANGED <<orchVars, notifierVars>>

NextSM ==
    \/ CallUpdateForumState
    \/ CallUpdateThreadState
    \/ CallGetNewThreads
    \/ CallGetNewPosts
    \/ CallGetLastPostId
    \/ Return
    \/ Tick

SpecSM == InitSM /\ [][NextSM]_vars

(***************************************************************************)
(* SpecFile: save_state and load_state of one StateManager called directly, *)
(* on every mapping the update methods can build and on the state files a  *)
(* process can find.                                                       *)
(***************************************************************************)
ForumStores(st) ==
    {update_forum_state(st, ForumId, thread_ids, 1) : thread_ids \in IdLists}
ThreadStores(st) ==
    {update_thread_state(st, ThreadId, last_post_id, total_posts, 1) :
        last_post_id \in PostIds, total_posts \in 1..MaxLen}
UpdatedStores ==
    {EmptyDict} \cup ForumStores(EmptyDict) \cup ThreadStores(EmptyDict)
        \cup UNION {ForumStores(st) : st \in ThreadStores(EmptyDict)}

\* no file, a file that does not parse, a file that cannot be opened, and a
\* file holding the JSON document [], and a path that cannot be resolved
ListFile == [status |-> "ok", content |-> json_dump(PyList(<<>>))]
LinkFile == [status |-> "unresolvable", content |-> json_dump(EmptyDict)]
FoundFiles ==
    { NoFile, LinkFile,
      [status |-> "corrupt", content |-> json_dump(EmptyDict)],
      [status |-> "unreadable", content |-> json_dump(EmptyDict)],
      ListFile }

InitFile ==
    /\ state \in UpdatedStores
    /\ file \in FoundFiles
    /\ now = 1
    /\ call = NoCall
    /\ InitProc
    /\ config = <<ForumMonitor, ThreadMonitor>>
    /\ NotifierIdle

CallSaveState ==
    /\ call.op = "none"
    /\ \E fault \in {"none", "open", "write"} :
        LET r == save_state(file, state, fault) IN
        /\ file' = r.file
        /\ call' = [op |-> "save_state", id |-> None, arg |-> <<fault>>,
                    ret |-> <<r.ret>>, log |-> "nothing", prev |-> state]
    /\ UNCHANGED <<state, now>>
    /\ UNCHANGED <<procVars, notifierVars>>

CallLoadState ==
    /\ call.op = "none"
    /\ state' = IF HasRaised(load_state(file)) THEN state ELSE load_state(file)
    /\ call' = [op |-> "load_state", id |-> None, arg |-> <<file.status>>,
                ret |-> <<>>,
                log |-> IF HasRaised(load_state(file)) THEN "raised" ELSE "nothing",
                prev |-> state]
    /\ UNCHANGED <<now, file>>
    /\ UNCHANGED <<procVars, notifierVars>>

ReturnFile ==
    /\ call.op # "none"
    /\ call' = NoCall
    /\ UNCHANGED <<state, now, file>>
    /\ UNCHANGED <<procVars, notifierVars>>

NextFile ==
    \/ CallSaveState
    \/ CallLoadState
    \/ ReturnFile

SpecFile == InitFile /\ [][NextFile]_vars

(***************************************************************************)
(* SpecNotify: one call of send_batch_thread_notifications or of           *)
(* send_batch_notifications, one step per turn of its loop.                *)
(***************************************************************************)
Variants == {"send_batch_thread_notifications", "send_batch_notifications"}

InitNotify ==
    /\ state = EmptyDict
    /\ now = 1
    /\ call = NoCall
    /\ InitRun
    /\ config = <<ForumMonitor, ThreadMonitor>>
    /\ NotifierIdle

\* the call, "if not posts: return 0" and success_count = 0
CallBatch ==
    /\ npc = "idle"
    /\ \E v \in Variants, n \in 0..MaxBatch :
        /\ variant' = v
        /\ batch' = [k \in 1..n |-> k]
        /\ npc' = IF n = 0 THEN "returned" ELSE "loop"
        /\ batch_ret' = IF n = 0 THEN <<0>> ELSE <<>>
    /\ UNCHANGED <<loop_i, success_count, attempted, send_returns, trace, last_send>>
    /\ UNCHANGED <<smVars, orchVars>>

\* one turn of the loop: the send, the count, the pause
SendItem ==
    /\ npc = "loop"
    /\ loop_i < Len(batch)
    /\ \E first \in FirstResponses, second \in SecondResponses :
        LET item == batch[loop_i + 1]
            sent == IF variant = "send_batch_thread_notifications"
                    THEN send_thread_notification(first, second)
                    ELSE send_notification(first, second)
        IN  /\ attempted' = Append(attempted, item)
            /\ last_send' = sent
            /\ IF sent.raised
               THEN /\ npc' = "raised"
                    /\ trace' = Append(trace, "send")
                    /\ UNCHANGED <<loop_i, success_count, send_returns>>
               ELSE /\ send_returns' = Append(send_returns, sent.ret)
                    /\ success_count' = IF sent.ret THEN success_count + 1 ELSE success_count
                    /\ trace' = IF pauses_after(loop_i, Len(batch))
                                THEN trace \o <<"send", "pause">>
                                ELSE Append(trace, "send")
                    /\ loop_i' = loop_i + 1
                    /\ npc' = "loop"
    /\ UNCHANGED <<variant, batch, batch_ret>>
    /\ UNCHANGED <<smVars, orchVars>>

\* return success_count
ReturnBatch ==
    /\ npc = "loop"
    /\ loop_i = Len(batch)
    /\ batch_ret' = <<success_count>>
    /\ npc' = "returned"
    /\ UNCHANGED <<variant, batch, loop_i, success_count, attempted, send_returns,
                   trace, last_send>>
    /\ UNCHANGED <<smVars, orchVars>>

NextNotify ==
    \/ CallBatch
    \/ SendItem
    \/ ReturnBatch

SpecNotify == InitNotify /\ [][NextNotify]_vars

(***************************************************************************)
(* Spec: ForoactivoMonitor.run (monitor.py), one process after another.    *)
(* Between two processes the forum thread changes.                         *)
(***************************************************************************)
Init ==
    /\ state = EmptyDict
    /\ now = 0
    /\ call = NoCall
    /\ InitRun
    /\ NotifierIdle

\* someone writes a post to the monitored thread
EnvNewPost ==
    /\ pc = "idle"
    /\ posted < MaxPosts
    /\ posted' = posted + 1
    /\ thread_posts' = Append(thread_posts, PostRec(AllPostNames[posted + 1]))
    /\ UNCHANGED <<thread_done, notifierVars, error_notified, smVars, runVars, localVars, histVars>>

\* the history of returned posts is dropped once steady fails
HistBroken ==
    /\ steady' = FALSE
    /\ returned' = [i \in 1..MaxPosts |-> 0]
    /\ baseline' = 0
    /\ last_fetched' = 0

\* a post is removed from the monitored thread (pruned or reorganised)
EnvPrunePost ==
    /\ pc = "idle"
    /\ Len(thread_posts) > 1
    /\ \E k \in 1..Len(thread_posts) :
        thread_posts' = SubSeq(thread_posts, 1, k - 1)
                            \o SubSeq(thread_posts, k + 1, Len(thread_posts))
    /\ HistBroken
    /\ UNCHANGED <<thread_done, notifierVars, error_notified, smVars, runVars, localVars, posted>>

\* ForoactivoMonitor() raises (no configuration file, invalid JSON, no
\* "monitors", no credentials): main() reports it and exits with 1,
\* lines 42-43, 51-68, 316-320
InitFails ==
    /\ pc = "idle"
    /\ exit_code' = <<1>>
    /\ pc' = "init_failed"
    /\ UNCHANGED <<thread_done, notifierVars, error_notified, delivered, smVars, file, config, run, idx, notifications_sent,
                   total_notifications, outcome, localVars, loads, save_returns,
                   envVars, histVars>>

\* run(), lines 76-90: a new process loads the state file; when load_state
\* raises, run() catches it at lines 106-110 and returns 1
StartRun ==
    /\ pc = "idle"
    /\ run < MaxRuns
    /\ run' = run + 1
    /\ now' = now + 1
    /\ loads' = loads + 1
    /\ total_notifications' = 0
    /\ notifications_sent' = 0
    /\ outcome' = "none"
    /\ idx' = 0
    /\ IF HasRaised(load_state(file))
       THEN /\ state' = state
            /\ pc' = "exited"
            /\ exit_code' = <<1>>
       ELSE /\ state' = load_state(file)
            /\ pc' = "loop"
            /\ UNCHANGED exit_code
    /\ UNCHANGED <<thread_done, notifierVars, error_notified, delivered, call, file, config, localVars, save_returns,
                   envVars, histVars>>

\* a handler returns n to run()'s loop: total_notifications += notifications_sent;
\* sent is what the sends of a batch that ran to its end returned
HandlerReturns(n, how, sent) ==
    /\ delivered' = Append(delivered, Cardinality({i \in DOMAIN sent : sent[i]}))
    /\ notifications_sent' = n
    /\ total_notifications' = total_notifications + n
    /\ outcome' = how
    /\ idx' = idx + 1
    /\ pc' = "loop"

\* mutant: the webhook environment variable is not looked at
ProcessMonitorNoWebhookCheck ==
    /\ pc = "loop"
    /\ idx < Len(config)
    /\ LET monitor_config == config[idx + 1] IN
       /\ all_items' = <<>>
       /\ new_items' = <<>>
       /\ attempts' = 0
       /\ committed' = FALSE
       /\ steps' = <<>>
       /\ results' = <<>>
       /\ error_notified' = "none"
       /\ IF monitor_config.id = None
             \/ ~(monitor_config.forum_url)
             \/ ~(monitor_config.target_url)
          THEN HandlerReturns(0, "skipped", <<>>)
          ELSE /\ pc' = "login"
               /\ outcome' = "running"
               /\ UNCHANGED <<delivered, notifications_sent, total_notifications, idx>>
    /\ UNCHANGED <<thread_done, notifierVars, smVars, file, config, run, endVars, envVars, histVars>>

\* mutant: run() saves the state before it returns 1
ProcessMonitorSavesOnEscape ==
    /\ pc = "loop"
    /\ idx < Len(config)
    /\ LET monitor_config == config[idx + 1] IN
       /\ all_items' = <<>>
       /\ new_items' = <<>>
       /\ attempts' = 0
       /\ committed' = FALSE
       /\ steps' = <<>>
       /\ results' = <<>>
       /\ error_notified' = "none"
       /\ IF monitor_config.id = None
             \/ ~(monitor_config.forum_url)
             \/ monitor_config.webhook_env = "zero"
             \/ ~(monitor_config.target_url)
          THEN /\ HandlerReturns(0, "skipped", <<>>)
               /\ UNCHANGED <<file, save_returns, exit_code>>
          ELSE IF monitor_config.webhook_env = "number"
          THEN \* os.getenv(webhook_env) raises TypeError before the handler's
               \* try; run() catches it after the loop and returns 1
               /\ pc' = "exited"
               /\ exit_code' = <<1>>
               /\ outcome' = "escaped"
               /\ file' = save_state(file, state, "none").file
               /\ save_returns' = Append(save_returns, save_state(file, state, "none").ret)
               /\ UNCHANGED <<delivered, notifications_sent, total_notifications, idx>>
          ELSE IF ~(monitor_config.webhook_url)
          THEN /\ HandlerReturns(0, "skipped", <<>>)
               /\ UNCHANGED <<file, save_returns, exit_code>>
          ELSE /\ pc' = "login"
               /\ outcome' = "running"
               /\ UNCHANGED <<delivered, notifications_sent, total_notifications, idx,
                              file, save_returns, exit_code>>
    /\ UNCHANGED <<thread_done, notifierVars, smVars, config, run, loads, envVars, histVars>>

\* _process_monitor and the handler's checks before its try block
\* (lines 121-138, 149-164, 228-243), and run()'s except (106-110)
ProcessMonitor ==
    /\ pc = "loop"
    /\ idx < Len(config)
    /\ LET monitor_config == config[idx + 1] IN
       /\ all_items' = <<>>
       /\ new_items' = <<>>
       /\ attempts' = 0
       /\ committed' = FALSE
       /\ steps' = <<>>
       /\ results' = <<>>
       /\ error_notified' = "none"
       /\ IF monitor_config.id = None
             \/ ~(monitor_config.forum_url)
             \/ monitor_config.webhook_env = "zero"
             \/ ~(monitor_config.target_url)
          THEN /\ HandlerReturns(0, "skipped", <<>>)
               /\ UNCHANGED <<file, save_returns, exit_code>>
          ELSE IF monitor_config.webhook_env = "number"
          THEN \* os.getenv(webhook_env) raises TypeError before the handler's
               \* try; run() catches it after the loop and returns 1
               /\ pc' = "exited"
               /\ exit_code' = <<1>>
               /\ outcome' = "escaped"
               /\ UNCHANGED <<file, save_returns>>
               /\ UNCHANGED <<delivered, notifications_sent, total_notifications, idx>>
          ELSE IF ~(monitor_config.webhook_url)
          THEN /\ HandlerReturns(0, "skipped", <<>>)
               /\ UNCHANGED <<file, save_returns, exit_code>>
          ELSE /\ pc' = "login"
               /\ outcome' = "running"
               /\ UNCHANGED <<delivered, notifications_sent, total_notifications, idx,
                              file, save_returns, exit_code>>
    /\ UNCHANGED <<thread_done, notifierVars, smVars, config, run, loads, envVars, histVars>>

\* ForoactivoClient(...), DiscordNotifier(...) and client.login(),
\* lines 168-177 / 247-256
Login ==
    /\ pc = "login"
    /\ \E result \in {"ok", "denied", "raise", "ctor_raise"}, notified \in {"sent", "failed"} :
        /\ error_notified' = IF result = "denied" THEN notified ELSE error_notified
        /\ CASE result = "ok" ->
                /\ steps' = Append(steps, "authenticate")
                /\ pc' = "fetch"
                /\ UNCHANGED <<delivered, notifications_sent, total_notifications, outcome, idx>>
          [] result = "denied" ->
                /\ steps' = steps \o <<"authenticate", "error_notification">>
                /\ HandlerReturns(0, "auth_failed", <<>>)
          [] result = "raise" ->
                /\ steps' = Append(steps, "authenticate")
                /\ pc' = "except"
                /\ UNCHANGED <<delivered, notifications_sent, total_notifications, outcome, idx>>
          [] OTHER ->
                /\ steps' = steps
                /\ pc' = "except"
                /\ UNCHANGED <<delivered, notifications_sent, total_notifications, outcome, idx>>
    /\ UNCHANGED <<thread_done, notifierVars, smVars, file, config, run, all_items, new_items, attempts,
                   committed, results, endVars, envVars, histVars>>

\* what the fetch of the current monitor can return: any listing for a forum
\* section; for the thread its posts, each once or each twice, or nothing
\* when the request fails
Fetchable(monitor_config) ==
    IF monitor_config.type = "forum" THEN FetchedThreadLists
    ELSE {thread_posts, Doubled(thread_posts), <<>>}

\* mutant: an empty listing of a forum section is committed as its cursor
FetchCommitsEmpty ==
    /\ pc = "fetch"
    /\ steps' = Append(steps, "fetch")
    /\ \E raised \in BOOLEAN :
        IF raised
        THEN /\ pc' = "except"
             /\ UNCHANGED <<delivered, all_items, histVars, notifications_sent,
                            total_notifications, outcome, idx, state>>
        ELSE \E fetched \in Fetchable(config[idx + 1]) :
             /\ all_items' = fetched
             /\ IF fetched = <<>>
                THEN /\ HandlerReturns(0, "fetch_empty", <<>>)
                     /\ IF config[idx + 1].type = "thread"
                        THEN HistBroken /\ UNCHANGED state
                        ELSE /\ UNCHANGED histVars
                             /\ state' = update_forum_state(state, config[idx + 1].id, <<>>, now)
                ELSE /\ pc' = "detect"
                     /\ IF config[idx + 1].type = "thread" /\ fetched # thread_posts
                        THEN HistBroken ELSE UNCHANGED histVars
                     /\ UNCHANGED <<delivered, notifications_sent, total_notifications,
                                    outcome, idx, state>>
    /\ UNCHANGED <<thread_done, notifierVars, error_notified, now, call, file, config, run, new_items, attempts, committed,
                   results, endVars, envVars>>

\* client.get_forum_threads / get_thread_posts, lines 179-185 / 258-264
Fetch ==
    /\ pc = "fetch"
    /\ steps' = Append(steps, "fetch")
    /\ \E raised \in BOOLEAN :
        IF raised
        THEN /\ pc' = "except"
             /\ UNCHANGED <<delivered, all_items, histVars, notifications_sent,
                            total_notifications, outcome, idx>>
        ELSE \E fetched \in Fetchable(config[idx + 1]) :
             /\ all_items' = fetched
             /\ IF fetched = <<>>
                THEN /\ HandlerReturns(0, "fetch_empty", <<>>)
                     /\ IF config[idx + 1].type = "thread"
                        THEN HistBroken ELSE UNCHANGED histVars
                ELSE /\ pc' = "detect"
                     /\ IF config[idx + 1].type = "thread" /\ fetched # thread_posts
                        THEN HistBroken ELSE UNCHANGED histVars
                     /\ UNCHANGED <<delivered, notifications_sent, total_notifications,
                                    outcome, idx>>
    /\ UNCHANGED <<thread_done, notifierVars, error_notified, smVars, file, config, run, new_items, attempts, committed,
                   results, endVars, envVars>>

\* the posting numbers of the posts of a list
numbers_of(posts) == {i \in 1..MaxPosts : PostRec(AllPostNames[i]) \in Range(posts)}

\* get_new_threads / get_new_posts, lines 188 / 267
Detect ==
    /\ pc = "detect"
    /\ steps' = Append(steps, "detect")
    /\ LET monitor_config == config[idx + 1] IN
       IF ~IsMapping(state)
       THEN \* self.state is a list: self.state.get raises AttributeError
            /\ pc' = "except"
            /\ UNCHANGED <<new_items, histVars>>
       ELSE IF monitor_config.type = "forum"
       THEN /\ new_items' = get_new_threads(state, monitor_config.id, all_items)
            /\ pc' = "commit_forum"
            /\ UNCHANGED histVars
       ELSE LET new_posts == get_new_posts(state, monitor_config.id, all_items).ret IN
            /\ new_items' = new_posts
            /\ pc' = IF new_posts = <<>> THEN "commit_thread" ELSE "notify"
            /\ IF steady
               THEN /\ returned' = [i \in 1..MaxPosts |->
                                     IF i \in numbers_of(new_posts) /\ returned[i] < 2
                                     THEN returned[i] + 1 ELSE returned[i]]
                    /\ baseline' = IF baseline = 0 THEN posted ELSE baseline
                    /\ last_fetched' = posted
                    /\ UNCHANGED steady
               ELSE UNCHANGED histVars
    /\ UNCHANGED <<thread_done, notifierVars, error_notified, delivered, smVars, file, config, run, idx, notifications_sent,
                   total_notifications, outcome, all_items, attempts, committed,
                   results, endVars, envVars>>

\* mutant: the cursor is written only when new threads were found
CommitForumOnlyIfNew ==
    /\ pc = "commit_forum"
    /\ steps' = Append(steps, "commit")
    /\ state' = IF new_items = <<>> THEN state
                ELSE update_forum_state(state, config[idx + 1].id, ids_of(all_items), now)
    /\ committed' = (new_items # <<>>)
    /\ IF new_items = <<>>
       THEN HandlerReturns(0, "no_new", <<>>)
       ELSE /\ pc' = "notify"
            /\ UNCHANGED <<delivered, notifications_sent, total_notifications, outcome, idx>>
    /\ UNCHANGED <<thread_done, notifierVars, error_notified, now, call, file, config, run, all_items, new_items, attempts,
                   results, endVars, envVars, histVars>>

\* update_forum_state and the check that follows it, lines 191-196
CommitForum ==
    /\ pc = "commit_forum"
    /\ steps' = Append(steps, "commit")
    /\ state' = update_forum_state(state, config[idx + 1].id, ids_of(all_items), now)
    /\ committed' = TRUE
    /\ IF new_items = <<>>
       THEN HandlerReturns(0, "no_new", <<>>)
       ELSE /\ pc' = "notify"
            /\ UNCHANGED <<delivered, notifications_sent, total_notifications, outcome, idx>>
    /\ UNCHANGED <<thread_done, notifierVars, error_notified, now, call, file, config, run, all_items, new_items, attempts,
                   results, endVars, envVars, histVars>>

\* mutant: the thread cursor is advanced before the sends, so that a send
\* that raises leaves it at the latest post
NotifyCommitsThreadFirst ==
    /\ pc = "notify"
    /\ steps' = Append(steps, "notify")
    /\ state' = IF config[idx + 1].type = "thread"
                THEN update_thread_state(state, config[idx + 1].id, Last(all_items).id,
                                         Len(all_items), now)
                ELSE state
    /\ \E raise_at \in 0..Len(new_items) :
        IF raise_at > 0
        THEN /\ attempts' = raise_at
             /\ results' = <<>>
             /\ pc' = "except"
             /\ UNCHANGED <<delivered, notifications_sent, total_notifications, outcome, idx>>
        ELSE \E sent \in [1..Len(new_items) -> BOOLEAN] :
             /\ attempts' = Len(new_items)
             /\ results' = sent
             /\ IF config[idx + 1].type = "forum"
                THEN HandlerReturns(send_batch(sent), "notified", sent)
                ELSE /\ notifications_sent' = send_batch(sent)
                     /\ pc' = "commit_thread"
                     /\ UNCHANGED <<delivered, total_notifications, outcome, idx>>
    /\ UNCHANGED <<thread_done, notifierVars, error_notified, now, call, file, config, run, all_items, new_items, committed,
                   endVars, envVars, histVars>>

\* notifier.send_batch_thread_notifications / send_batch_notifications,
\* lines 200-202 / 282: each send returns True or False, or one of them raises
Notify ==
    /\ pc = "notify"
    /\ steps' = Append(steps, "notify")
    /\ \E raise_at \in 0..Len(new_items) :
        IF raise_at > 0
        THEN /\ attempts' = raise_at
             /\ results' = <<>>
             /\ pc' = "except"
             /\ UNCHANGED <<delivered, notifications_sent, total_notifications, outcome, idx>>
        ELSE \E sent \in [1..Len(new_items) -> BOOLEAN] :
             /\ attempts' = Len(new_items)
             /\ results' = sent
             /\ IF config[idx + 1].type = "forum"
                THEN HandlerReturns(send_batch(sent), "notified", sent)
                ELSE /\ notifications_sent' = send_batch(sent)
                     /\ pc' = "commit_thread"
                     /\ UNCHANGED <<delivered, total_notifications, outcome, idx>>
    /\ UNCHANGED <<thread_done, notifierVars, error_notified, smVars, file, config, run, all_items, new_items, committed,
                   endVars, envVars, histVars>>

\* update_thread_state and the return, lines 272-278 / 285-292
CommitThread ==
    /\ pc = "commit_thread"
    /\ steps' = Append(steps, "commit")
    /\ LET latest_post == Last(all_items) IN
       state' = update_thread_state(state, config[idx + 1].id, latest_post.id,
                                    Len(all_items), now)
    /\ committed' = TRUE
    /\ thread_done' = TRUE
    /\ IF new_items = <<>>
       THEN HandlerReturns(0, "no_new", <<>>)
       ELSE HandlerReturns(notifications_sent, "notified", results)
    /\ UNCHANGED <<now, call, file, config, run, all_items, new_items, attempts,
                   results, endVars, envVars, histVars, notifierVars,
                   error_notified>>

\* mutant: the exception leaves the handler and ends run() with 1
ExceptAborts ==
    /\ pc = "except"
    /\ steps' = steps
    /\ exit_code' = <<1>>
    /\ pc' = "exited"
    /\ UNCHANGED <<thread_done, notifierVars, error_notified, delivered, notifications_sent, total_notifications, outcome, idx,
                   smVars, file, config, run, all_items, new_items, attempts,
                   committed, results, loads, save_returns, envVars, histVars>>

\* mutant: an error notification that raises leaves the handler and ends run()
ExceptNotifierRaises ==
    /\ pc = "except"
    /\ steps' = Append(steps, "error_notification")
    /\ \E notified \in {"sent", "failed", "raised"} :
        /\ error_notified' = notified
        /\ IF notified = "raised"
           THEN /\ pc' = "exited"
                /\ exit_code' = <<1>>
                /\ UNCHANGED <<delivered, notifications_sent, total_notifications,
                               outcome, idx>>
           ELSE /\ HandlerReturns(0, "exception", <<>>)
                /\ UNCHANGED exit_code
    /\ UNCHANGED <<thread_done, notifierVars, smVars, file, config, run, all_items, new_items, attempts,
                   committed, results, loads, save_returns, envVars, histVars>>

\* except Exception, lines 204-217 / 294-307: the error notification is
\* attempted; it is sent, fails, or raises, and whatever it does is swallowed
Except ==
    /\ pc = "except"
    /\ steps' = Append(steps, "error_notification")
    /\ \E notified \in {"sent", "failed", "raised"} :
        error_notified' = notified
    /\ HandlerReturns(0, "exception", <<>>)
    /\ UNCHANGED <<thread_done, notifierVars, smVars, file, config, run, all_items, new_items, attempts,
                   committed, results, endVars, envVars, histVars>>

\* mutant: nothing is written by a run that sent no notification
SaveStateIfNotified ==
    /\ pc = "loop"
    /\ idx = Len(config)
    /\ \E fault \in {"none", "open", "write"} :
        LET r == save_state(file, state, fault) IN
        IF total_notifications = 0
        THEN UNCHANGED <<file, save_returns, histVars>>
        ELSE /\ file' = r.file
             /\ save_returns' = Append(save_returns, r.ret)
             /\ IF fault = "none" THEN UNCHANGED histVars ELSE HistBroken
    /\ pc' = "saved"
    /\ UNCHANGED <<thread_done, notifierVars, error_notified, delivered, smVars, config, run, idx, notifications_sent,
                   total_notifications, outcome, localVars, loads, exit_code,
                   envVars>>

\* self.state_manager.save_state(), lines 96-97: the returned value is dropped
SaveState ==
    /\ pc = "loop"
    /\ idx = Len(config)
    /\ \E fault \in {"none", "open", "write"} :
        LET r == save_state(file, state, fault) IN
        /\ file' = r.file
        /\ save_returns' = Append(save_returns, r.ret)
        /\ IF fault = "none" THEN UNCHANGED histVars ELSE HistBroken
    /\ pc' = "saved"
    /\ UNCHANGED <<thread_done, notifierVars, error_notified, delivered, smVars, config, run, idx, notifications_sent,
                   total_notifications, outcome, localVars, loads, exit_code,
                   envVars>>

\* the report and return 0, lines 99-104
ReturnRun ==
    /\ pc = "saved"
    /\ exit_code' = <<0>>
    /\ pc' = "exited"
    /\ UNCHANGED <<thread_done, notifierVars, error_notified, delivered, smVars, file, config, run, idx, notifications_sent,
                   total_notifications, outcome, localVars, loads, save_returns,
                   envVars, histVars>>

\* main(): sys.exit(exit_code), lines 313-315; the memory of the process is gone
ProcessExit ==
    /\ pc \in {"exited", "init_failed"}
    /\ pc' = "idle"
    /\ state' = EmptyDict
    /\ idx' = 0
    /\ all_items' = <<>>
    /\ new_items' = <<>>
    /\ attempts' = 0
    /\ committed' = FALSE
    /\ steps' = <<>>
    /\ results' = <<>>
    /\ notifications_sent' = 0
    /\ total_notifications' = 0
    /\ outcome' = "none"
    /\ loads' = 0
    /\ save_returns' = <<>>
    /\ exit_code' = <<>>
    /\ delivered' = <<>>
    /\ error_notified' = "none"
    /\ UNCHANGED <<thread_done, notifierVars, now, call, file, config, run, envVars, histVars>>

Next ==
    \/ EnvNewPost
    \/ EnvPrunePost
    \/ InitFails
    \/ StartRun
    \/ ProcessMonitor
    \/ Login
    \/ Fetch
    \/ Detect
    \/ CommitForum
    \/ Notify
    \/ CommitThread
    \/ Except
    \/ SaveState
    \/ ReturnRun
    \/ ProcessExit

Spec == Init /\ [][Next]_vars

(***************************************************************************)
(* SpecWide: run() as in Spec, for configurations in which a monitor was   *)
(* removed or disabled, or has a number as discord_webhook_env, and with   *)
(* the state file that earlier runs of another configuration have left, a  *)
(* state file holding [], or a state file path that cannot be resolved.    *)
(***************************************************************************)
OldId == "old1"
LeftStore ==
    dict_set(dict_set(dict_set(EmptyDict,
        ForumId, [seen_thread_ids |-> <<"A">>, last_checked_at |-> 0, total_threads |-> 1]),
        ThreadId, [last_post_id |-> "p1", last_checked_at |-> 0, total_posts_seen |-> 1]),
        OldId, [last_post_id |-> "p2", last_checked_at |-> 0, total_posts_seen |-> 2])
LeftFile == [status |-> "ok", content |-> json_dump(LeftStore)]

WideConfigs ==
    { <<ForumMonitor>>, <<ThreadMonitor>>,
      <<ForumMonitor, ThreadMonitor, MistypedMonitor>>,
      <<ZeroMonitor, ThreadMonitor>> }

InitWide ==
    /\ state = EmptyDict
    /\ now = 0
    /\ call = NoCall
    /\ file \in {NoFile, LeftFile, ListFile, LinkFile}
    /\ config \in WideConfigs
    /\ InitMemory
    /\ NotifierIdle

SpecWide == InitWide /\ [][Next]_vars

(***************************************************************************)
(* SpecList: run() as in Spec, with complete configurations, started with  *)
(* no state file or with a state file holding []: on the list that         *)
(* load_state then keeps, get_new_threads and get_new_posts raise inside   *)
(* the handler's try.                                                      *)
(***************************************************************************)
InitList ==
    /\ state = EmptyDict
    /\ now = 0
    /\ call = NoCall
    /\ file \in {NoFile, ListFile}
    /\ config \in Configs
    /\ InitMemory
    /\ NotifierIdle

SpecList == InitList /\ [][Next]_vars

(***************************************************************************)
(* Properties of the StateManager methods (SpecSM).                        *)
(***************************************************************************)
\* the cursor stored under the called id, and its seen set
StoredCursor == dict_get(state, call.id, EmptyDict)
StoredSeen ==
    IF "seen_thread_ids" \in DOMAIN StoredCursor
    THEN Range(StoredCursor.seen_thread_ids) ELSE {}
StoredLast ==
    IF "last_post_id" \in DOMAIN StoredCursor THEN StoredCursor.last_post_id ELSE None

\* r holds exactly the elements of s whose id is not in S, in the order of s
KeptIndices(s, S) == {i \in 1..Len(s) : s[i].id \notin S}
IsFilteredOut(r, s, S) ==
    /\ Len(r) = Cardinality(KeptIndices(s, S))
    /\ \A i \in KeptIndices(s, S) :
          r[Cardinality({j \in KeptIndices(s, S) : j <= i})] = s[i]

\* the positions of s that hold the id p
Positions(s, p) == {i \in 1..Len(s) : s[i].id = p}
FirstPosition(s, p) == CHOOSE i \in Positions(s, p) : \A j \in Positions(s, p) : i <= j

\* C2: get_new_threads returns exactly the threads of all_threads whose id is
\* not in the stored seen_thread_ids of forum_id, in the order of all_threads;
\* with no cursor stored, or an empty seen set, it returns all_threads.
C2_NewThreadsAreTheUnseen ==
    call.op = "get_new_threads" =>
        /\ IsFilteredOut(call.ret, call.arg, StoredSeen)
        /\ (StoredSeen = {} => call.ret = call.arg)

\* a call that drops a seen thread and keeps two unseen ones, in order
C2_Witness ==
    /\ call.op = "get_new_threads"
    /\ Len(call.ret) = 2
    /\ Len(call.arg) = 3
    /\ call.arg[2].id \in StoredSeen

\* C3: with a last_post_id stored and k the first index of all_posts holding
\* it, get_new_posts returns exactly the posts after index k, in order, and
\* the empty list when k is the last index.
C3_NewPostsFollowTheCursor ==
    (call.op = "get_new_posts" /\ StoredLast # None
        /\ Positions(call.arg, StoredLast) # {}) =>
        LET k == FirstPosition(call.arg, StoredLast) IN
        /\ call.ret = SubSeq(call.arg, k + 1, Len(call.arg))
        /\ (k = Len(call.arg) => call.ret = <<>>)

\* the stored id is found first at index 1 and again at the last index
C3_Witness ==
    /\ call.op = "get_new_posts"
    /\ StoredLast # None
    /\ Len(call.arg) = 3
    /\ Positions(call.arg, StoredLast) = {1, 3}
    /\ Len(call.ret) = 2

\* C4: with no last_post_id stored (first run), get_new_posts returns the
\* one-element list of the last post of a non-empty all_posts and the empty
\* list for an empty all_posts: never more than one post.
C4_FirstRunReturnsLastPostOnly ==
    (call.op = "get_new_posts" /\ StoredLast = None) =>
        /\ Len(call.ret) <= 1
        /\ (call.arg # <<>> => call.ret = <<call.arg[Len(call.arg)]>>)
        /\ (call.arg = <<>> => call.ret = <<>>)

\* a first run on a snapshot of three posts
C4_Witness ==
    /\ call.op = "get_new_posts"
    /\ StoredLast = None
    /\ Len(call.arg) = 3
    /\ call.arg[1] # call.arg[3]
    /\ call.ret = <<call.arg[3]>>

\* C5: with a last_post_id stored that no post of the non-empty all_posts
\* holds, get_new_posts returns the one-element list of the last post and
\* records a warning; it records no warning when the id is found or when no
\* id is stored.
C5_StaleCursorRebaselinesWithWarning ==
    call.op = "get_new_posts" =>
        /\ (StoredLast # None /\ call.arg # <<>> /\ Positions(call.arg, StoredLast) = {})
              => (call.ret = <<call.arg[Len(call.arg)]>> /\ call.log = "warning")
        /\ (StoredLast = None \/ Positions(call.arg, StoredLast) # {})
              => call.log # "warning"

\* a stale cursor met by a snapshot of two other posts
C5_Witness ==
    /\ call.op = "get_new_posts"
    /\ StoredLast # None
    /\ Len(call.arg) = 2
    /\ Positions(call.arg, StoredLast) = {}
    /\ call.log = "warning"

\* the cursor the called id held before the call
PrevSeen ==
    IF "seen_thread_ids" \in DOMAIN call.prev
    THEN Range(call.prev.seen_thread_ids) ELSE {}

\* C9: update_forum_state replaces the cursor wholesale: afterwards
\* seen_thread_ids is exactly thread_ids and no id of the previous cursor is
\* kept unless it is in thread_ids; so after update_forum_state on [A,B,C] a
\* fetch of [B,C,D] makes get_new_threads return exactly [D].
C9_UpdateForumStateReplaces ==
    /\ call.op = "update_forum_state" =>
          /\ StoredCursor.seen_thread_ids = call.arg
          /\ StoredCursor.total_threads = Len(call.arg)
          /\ \A t \in PrevSeen \ Range(call.arg) : t \notin StoredSeen
    /\ (call.op = "get_new_threads" /\ call.id = ForumId
          /\ call.arg = <<ThreadRec("B"), ThreadRec("C"), ThreadRec("D")>>
          /\ "seen_thread_ids" \in DOMAIN StoredCursor
          /\ StoredCursor.seen_thread_ids = <<"A", "B", "C">>)
          => call.ret = <<ThreadRec("D")>>

\* an update that drops two ids of the previous cursor and keeps one
C9_Witness ==
    /\ call.op = "update_forum_state"
    /\ "seen_thread_ids" \in DOMAIN call.prev
    /\ call.prev.seen_thread_ids = <<"A", "B", "C">>
    /\ call.arg = <<"C", "D">>
    /\ StoredSeen = {"C", "D"}

\* C10: update_forum_state called again with the same ids leaves the seen
\* set equal to ids, and get_new_threads gives the same result whatever the
\* order in which the same ids are stored.
C10_SeenIdsAreASet ==
    /\ call.op = "update_forum_state" => StoredSeen = Range(call.arg)
    /\ (call.op = "get_new_threads" /\ "seen_thread_ids" \in DOMAIN StoredCursor) =>
          \A ids \in IdLists :
              Range(ids) = StoredSeen =>
                  get_new_threads(update_forum_state(state, call.id, ids, now),
                                  call.id, call.arg) = call.ret

\* the second of two calls with the same three ids, at a later instant
C10_Witness ==
    /\ call.op = "update_forum_state"
    /\ "seen_thread_ids" \in DOMAIN call.prev
    /\ call.prev.seen_thread_ids = call.arg
    /\ Cardinality(Range(call.arg)) = 3
    /\ call.prev.last_checked_at # StoredCursor.last_checked_at
    /\ StoredSeen = PrevSeen

(***************************************************************************)
(* Properties of the state file (SpecFile).                                *)
(***************************************************************************)
\* the cursors of two mappings agree field by field
SameFields(a, b) ==
    /\ DOMAIN a = DOMAIN b
    /\ \A k \in DOMAIN a :
          /\ DOMAIN a[k] = DOMAIN b[k]
          /\ \A f \in DOMAIN a[k] : a[k][f] = b[k][f]

\* get_new_threads and get_new_posts cannot tell two mappings apart
SameAnswers(a, b) ==
    /\ \A id \in {ForumId, ThreadId}, all_threads \in ThreadLists :
          get_new_threads(a, id, all_threads) = get_new_threads(b, id, all_threads)
    /\ \A id \in {ForumId, ThreadId}, all_posts \in PostLists :
          get_new_posts(a, id, all_posts) = get_new_posts(b, id, all_posts)

C12_LoadStateYieldsMapping ==
    call.op = "load_state" =>
        /\ call.log # "raised"
        /\ IsMapping(state)
        /\ call.arg \in {<<"absent">>, <<"corrupt">>, <<"unreadable">>} => state = EmptyDict

(***************************************************************************)
(* Properties of a run (Spec).                                             *)
(***************************************************************************)
\* the monitor whose handler is running or has just returned
BetweenHandlers == pc \in {"loop", "saved", "exited"}
HandledMonitor == IF BetweenHandlers THEN config[idx] ELSE config[idx + 1]
InHandlerOrAfter == pc # "idle" /\ (BetweenHandlers => idx >= 1)

\* C1: while every save and load succeeds and every snapshot of the thread
\* is non-empty and only grows at its end, no post is returned by
\* get_new_posts in more than one run, and every post written after the
\* first snapshot is returned in exactly one run once it has been fetched.
C1_EachPostReturnedOnce ==
    steady =>
        \A i \in 1..MaxPosts :
            /\ returned[i] <= 1
            /\ (baseline < i /\ i <= last_fetched) => returned[i] = 1

\* C6: for every monitor, the cursor update of a fetch that produced new
\* items does not happen before the sends for those items have been attempted.
C6_NotifyBeforeCommit ==
    (committed /\ new_items # <<>>) => attempts = Len(new_items)

\* C7: a thread monitor whose fetch returned a non-empty post list ends with
\* its cursor set to the id of the last fetched post and the number of
\* fetched posts.
C7_ThreadCursorCommitted ==
    (pc = "loop" /\ idx >= 1 /\ all_items # <<>> /\ config[idx].type = "thread") =>
        /\ get_last_post_id(state, config[idx].id) = Last(all_items).id
        /\ state[config[idx].id].total_posts_seen = Len(all_items)

\* C8: a forum monitor whose fetch returned a non-empty thread list has its
\* cursor replaced with the ids of all fetched threads and their count,
\* whether get_new_threads found new threads or none.
C8_ForumCursorReplaced ==
    (all_items # <<>> /\ InHandlerOrAfter /\ HandledMonitor.type = "forum"
        /\ pc \notin {"detect", "commit_forum"}) =>
        LET cursor == dict_get(state, HandledMonitor.id, EmptyDict) IN
        /\ "seen_thread_ids" \in DOMAIN cursor
        /\ cursor.seen_thread_ids = ids_of(all_items)
        /\ cursor.total_threads = Len(all_items)

\* a fetch with nothing new that still rewrites the loaded cursor
C8_Witness ==
    /\ pc = "loop"
    /\ idx >= 1
    /\ config[idx].type = "forum"
    /\ outcome = "no_new"
    /\ all_items # <<>>
    /\ file.status = "ok"
    /\ ForumId \in DOMAIN load_state(file)
    /\ load_state(file)[ForumId].seen_thread_ids # ids_of(all_items)
    /\ state[ForumId].seen_thread_ids = ids_of(all_items)

\* a handler has returned to run()'s loop (config[idx] is its monitor)
HandlerReturned == BetweenHandlers /\ idx >= 1
FailedOutcomes == {"auth_failed", "fetch_empty", "exception"}
RunEnded == pc \in {"saved", "exited"}
\* a process is inside run()
InRun == pc \notin {"idle", "init_failed"}

\* C13: save_state never raises and returns a boolean: False when the write
\* fails, with the file untouched or left partial; True when it succeeds, with
\* the file holding the whole in-memory mapping.  In both cases the mapping
\* in memory and what the run has done so far are as before the call.
C13_SaveStateReportsAndKeepsMemory ==
    [][(pc = "loop" /\ pc' = "saved") =>
          /\ state' = state
          /\ total_notifications' = total_notifications
          /\ delivered' = delivered
          /\ save_returns' \in {Append(save_returns, TRUE), Append(save_returns, FALSE)}
          /\ IF Last(save_returns')
             THEN /\ file' = [status |-> "ok", content |-> json_dump(state)]
                  /\ load_state(file') = state
             ELSE file' = file \/ file'.status = "corrupt"]_vars

\* a failed save at the end of a run that updated a cursor and sent something
C13_Witness ==
    /\ pc = "saved"
    /\ save_returns = <<FALSE>>
    /\ state # EmptyDict
    /\ load_state(file) # state
    /\ total_notifications > 0

\* C14: a run whose save failed is told apart from a run whose save
\* succeeded by what run() returns.
C14_SaveFailureSurfaced ==
    (pc = "exited" /\ save_returns = <<FALSE>>) => exit_code # <<0>>

\* C15: a monitor that fails at any step of its pipeline contributes 0 to the
\* total; the handler returns to the loop, every monitor of the list is
\* handled before the save, and run() does not return without the save.
C15_FailureIsIsolated ==
    [][/\ (idx' = idx + 1 /\ outcome' \in FailedOutcomes) =>
              /\ notifications_sent' = 0
              /\ total_notifications' = total_notifications
              /\ pc' = "loop"
       /\ pc' = "loop" => (ENABLED ProcessMonitor)' \/ (ENABLED SaveState)'
       /\ pc' = "saved" => idx' = Len(config) /\ Len(delivered') = Len(config)
       /\ pc' = "exited" => Len(save_returns') = 1 /\ Len(delivered') = Len(config)]_vars

\* both monitors are complete, so that neither is skipped: the forum
\* monitor failed before its commit (authentication refused, nothing
\* fetched or an exception), the thread monitor after it sent a notification
\* and the run saved
C15_Witness ==
    /\ pc = "exited"
    /\ config = <<ForumMonitor, ThreadMonitor>>
    /\ delivered = <<0, 1>>
    /\ outcome = "notified"
    /\ total_notifications = 1
    /\ save_returns = <<TRUE>>
    /\ ForumId \notin DOMAIN state

\* C16: whenever a monitor with a webhook fails (authentication refused,
\* nothing fetched, or an exception in the pipeline) an error notification has
\* been attempted for it.
C16_FailureSendsErrorNotification ==
    (HandlerReturned /\ outcome \in FailedOutcomes /\ config[idx].webhook_url) =>
        "error_notification" \in Range(steps)

\* a monitor that lacks its id, forum_url, section_url / thread_url or webhook
Incomplete(monitor_config) ==
    \/ monitor_config.id = None
    \/ ~(monitor_config.forum_url)
    \/ ~(monitor_config.target_url)
    \/ ~(monitor_config.webhook_url)

\* C17: a monitor lacking a required field or its webhook variable is
\* skipped: no step of the pipeline is attempted for it, the cursor store is
\* unchanged, it contributes 0 and the loop goes on to the next monitor.
C17_IncompleteMonitorSkipped ==
    [][(pc = "loop" /\ idx < Len(config) /\ Incomplete(config[idx + 1])) =>
          /\ outcome' = "skipped"
          /\ state' = state
          /\ steps' = <<>>
          /\ attempts' = 0
          /\ notifications_sent' = 0
          /\ total_notifications' = total_notifications
          /\ idx' = idx + 1
          /\ pc' = "loop"]_vars

\* a skipped first monitor with a cursor store loaded, the second still to come
C17_Witness ==
    /\ pc = "loop"
    /\ outcome = "skipped"
    /\ idx = 1
    /\ idx < Len(config)
    /\ steps = <<>>
    /\ state # EmptyDict
    /\ state = load_state(file)

RECURSIVE SumSeq(_)
SumSeq(q) == IF q = <<>> THEN 0 ELSE Head(q) + SumSeq(Tail(q))

\* C18: the total of a run is the sum, over the monitors handled, of the
\* sends that returned True in a batch that ran to its end; skipped and
\* failed monitors count 0 and a send that returned False is never counted.
C18_TotalIsSumOfSuccesses ==
    /\ pc # "idle" => /\ Len(delivered) = idx
                      /\ total_notifications = SumSeq(delivered)
    /\ HandlerReturned => notifications_sent = Last(delivered)
    /\ RunEnded => Len(delivered) = Len(config)

\* both monitors sent, and one send of the second returned False
C18_Witness ==
    /\ pc = "exited"
    /\ delivered = <<1, 1>>
    /\ total_notifications = 2
    /\ results = <<TRUE, FALSE>>

PipelineOrder == <<"authenticate", "fetch", "detect", "notify", "commit">>
Rank(step) == CHOOSE i \in DOMAIN PipelineOrder : PipelineOrder[i] = step
PipelineSteps == SelectSeq(steps, LAMBDA x : x # "error_notification")

\* C20: the steps of a monitor come in the order authenticate, fetch, detect
\* delta, notify, commit; nothing is fetched before authentication, and
\* nothing is detected, notified or committed unless the fetch returned a
\* non-empty list.
C20_PipelineOrder ==
    /\ \A i, j \in DOMAIN PipelineSteps :
          i < j => Rank(PipelineSteps[i]) < Rank(PipelineSteps[j])
    /\ "fetch" \in Range(steps) => steps[1] = "authenticate"
    /\ Range(steps) \cap {"detect", "notify", "commit"} # {} => all_items # <<>>

\* C21: once the monitor object exists, run() returns 0 whatever the
\* monitors' configurations and outcomes (skipped, authentication refused,
\* nothing fetched, exception, sends failed) and whatever the save returned;
\* an exit code other than 0 comes only from a failed initialization.
C21_RunReturnsZero ==
    /\ pc = "exited" => exit_code = <<0>>
    /\ (InRun /\ pc # "exited") => exit_code = <<>>
    /\ exit_code \notin {<<>>, <<0>>} =>
          /\ pc = "init_failed"
          /\ loads = 0
          /\ delivered = <<>>

(***************************************************************************)
(* Further properties of the StateManager methods (SpecSM).                *)
(***************************************************************************)
\* C22: get_new_threads, get_new_posts and get_last_post_id change neither
\* the in-memory mapping nor the state file, and the result of a call is the
\* result the same call gives on the mapping it leaves behind.
C22_QueriesArePure ==
    [][call'.op \in {"get_new_threads", "get_new_posts", "get_last_post_id"} =>
          /\ state' = state
          /\ file' = file
          /\ CASE call'.op = "get_new_threads" ->
                    call'.ret = get_new_threads(state', call'.id, call'.arg)
               [] call'.op = "get_new_posts" ->
                    /\ call'.ret = get_new_posts(state', call'.id, call'.arg).ret
                    /\ call'.log = get_new_posts(state', call'.id, call'.arg).log
               [] OTHER ->
                    call'.ret = <<get_last_post_id(state', call'.id)>>]_vars

\* get_new_posts has returned two posts and the cursor still names the old one
C22_Witness ==
    /\ call.op = "get_new_posts"
    /\ call.log = "found"
    /\ Len(call.ret) = 2
    /\ StoredCursor = call.prev
    /\ StoredLast = call.arg[1].id

\* C23: under one id the store holds a cursor of one shape only: the thread
\* operations never read or overwrite a cursor written by update_forum_state,
\* nor the forum operations one written by update_thread_state.
C23_OneShapePerId ==
    /\ call.op \in {"update_thread_state", "get_new_posts", "get_last_post_id"} =>
          "seen_thread_ids" \notin DOMAIN call.prev
    /\ call.op \in {"update_forum_state", "get_new_threads"} =>
          "last_post_id" \notin DOMAIN call.prev

\* C29: a thread id that was in the committed listing and is missing from the
\* listing committed after it is reported as new by get_new_threads in
\* whatever later listing it appears again: the cursor kept only the latest ids.
C29_DroppedThreadIsNewAgain ==
    call.op = "update_forum_state" =>
        \A t \in PrevSeen \ Range(call.arg) :
            \A all_threads \in ThreadLists :
                ThreadRec(t) \in Range(all_threads) =>
                    ThreadRec(t) \in Range(get_new_threads(state, ForumId, all_threads))
C29_Witness ==
    /\ call.op = "update_forum_state"
    /\ PrevSeen = {"A", "B"}
    /\ call.arg = <<"B">>
    /\ get_new_threads(state, ForumId, <<ThreadRec("A"), ThreadRec("B")>>) = <<ThreadRec("A")>>


(***************************************************************************)
(* Further properties of a run (Spec).                                     *)
(***************************************************************************)
\* C24: once a process has run the thread monitor's pipeline to its commit on
\* a non-empty fetch, get_last_post_id for its id is present in every later
\* state of every process, from the start of its run on.
C24_LastPostIdStaysPresent ==
    (thread_done /\ InRun) => get_last_post_id(state, ThreadId) # None

(***************************************************************************)
(* Properties of the notifier (SpecNotify).                                *)
(***************************************************************************)
\* C25: a batch call of either variant that has ended has called the send for
\* every item once, in input order, whatever the earlier sends returned, and
\* has returned the number of sends that returned True, between 0 and n.
C25_BatchAttemptsAllAndCounts ==
    npc \in {"returned", "raised"} =>
        /\ attempted = batch
        /\ Len(send_returns) = Len(batch)
        /\ batch_ret = <<Cardinality({k \in 1..Len(send_returns) : send_returns[k]})>>
        /\ batch_ret[1] \in 0..Len(batch)

SendsBefore(j) == Cardinality({k \in 1..(j - 1) : trace[k] = "send"})

\* C26: in a batch of n the pause comes after the i-th send exactly when i is
\* a multiple of 4 and i < n: between every 4th send and the next, never after
\* the last send, and never more than 4 sends without a pause between them.
C26_PauseAfterEveryFourth ==
    /\ \A j \in 1..Len(trace) :
          trace[j] = "pause" =>
              /\ j > 1 /\ trace[j - 1] = "send"
              /\ SendsBefore(j) % 4 = 0
              /\ SendsBefore(j) < Len(batch)
    /\ \A j \in 2..Len(trace) :
          (trace[j] = "send" /\ SendsBefore(j) % 4 = 0) => trace[j - 1] = "pause"
    /\ (npc = "loop" /\ loop_i > 0 /\ loop_i % 4 = 0 /\ loop_i < Len(batch)) =>
          trace[Len(trace)] = "pause"
    /\ (npc = "returned" /\ trace # <<>>) => trace[Len(trace)] = "send"
    /\ \A j \in 1..(Len(trace) - 4) : \E k \in j..(j + 4) : trace[k] = "pause"
C26_Witness ==
    /\ npc = "returned"
    /\ trace = <<"send", "send", "send", "send", "pause", "send", "send", "send", "send">>

Received(r) == r # NoResponse

\* C27: a send makes at most two POSTs, the second if and only if the first
\* response is a 429, after waiting its retry_after or the default; it
\* returns, and returns True if and only if the last response received is 204.
C27_OneRetryOn429 ==
    last_send.posts # <<>> =>
        LET posts == last_send.posts
            received == SelectSeq(posts, Received)
        IN  /\ Len(posts) <= 2
            /\ Len(posts) = 2 <=> posts[1].status = 429
            /\ Len(posts) = 2 =>
                  last_send.slept = <<IF posts[1].retry_after = <<>> THEN 5
                                      ELSE posts[1].retry_after[1]>>
            /\ ~last_send.raised
            /\ last_send.ret <=> (received # <<>> /\ received[Len(received)].status = 204)

\* C28: whatever the error notification of a failing monitor does (sent,
\* returned failure, raised), the handler returns 0 to the loop, run() has
\* not ended, and the next monitor of the configuration is ready to be
\* processed, or the save when it was the last; the run ends with exit code 0.
C28_ErrorNotificationNeverPropagates ==
    [][(error_notified = "none" /\ error_notified' # "none") =>
          /\ pc' = "loop"
          /\ idx' = idx + 1
          /\ notifications_sent' = 0
          /\ total_notifications' = total_notifications
          /\ outcome' \in FailedOutcomes
          /\ exit_code' = <<>>
          /\ (idx' < Len(config)) => (ENABLED ProcessMonitor)'
          /\ (idx' = Len(config)) => (ENABLED SaveState)']_vars
C28_Witness ==
    /\ error_notified = "raised"
    /\ outcome = "exception"
    /\ pc = "loop" /\ idx = 1 /\ Len(config) = 2
    /\ ENABLED ProcessMonitor

\* C30: a fetch that returns an empty list ends the monitor's handler with 0:
\* nothing is detected, notified or committed, the run's total is unchanged,
\* and the store and the state file are exactly as they were, so the cursor
\* of the last non-empty fetch is the one a later fetch is compared with.
C30_EmptyFetchLeavesCursor ==
    [][(pc = "fetch" /\ outcome' = "fetch_empty") =>
          /\ all_items' = <<>>
          /\ state' = state
          /\ file' = file
          /\ notifications_sent' = 0
          /\ total_notifications' = total_notifications
          /\ delivered' = Append(delivered, 0)
          /\ attempts' = 0 /\ results' = <<>> /\ ~committed'
          /\ steps' = <<"authenticate", "fetch">>
          /\ pc' = "loop" /\ idx' = idx + 1]_vars
C30_Witness ==
    /\ outcome = "fetch_empty"
    /\ pc = "loop" /\ idx >= 1
    /\ config[idx].type = "forum"
    /\ run >= 2
    /\ config[idx].id \in DOMAIN state
    /\ state[config[idx].id].seen_thread_ids # <<>>
    /\ all_items = <<>>

\* a send of the current monitor's batch has raised
RaisedInNotify == pc = "except" /\ steps # <<>> /\ Last(steps) = "notify"

\* C31: when a send of the thread monitor's batch raises, the handler goes to
\* its except branch and returns without the commit: the store and the file
\* are as they were, and get_new_posts on that cursor returns the same posts
\* for the same listing, as it does in the next run.
C31_RaiseInNotifyKeepsThreadCursor ==
    [][/\ (pc = "notify" /\ config[idx + 1].type = "thread" /\ pc' = "except") =>
             /\ state' = state
             /\ file' = file
             /\ ~committed'
             /\ get_new_posts(state', config[idx + 1].id, all_items').ret = new_items'
       /\ (RaisedInNotify /\ config[idx + 1].type = "thread") =>
             /\ state' = state
             /\ ~committed'
             /\ "commit" \notin Range(steps')
             /\ outcome' = "exception" /\ notifications_sent' = 0
             /\ get_new_posts(state', config[idx + 1].id, all_items).ret = new_items]_vars
C31_Witness ==
    /\ RaisedInNotify
    /\ config[idx + 1].type = "thread"
    /\ run = 2 /\ steady
    /\ new_items = <<PostRec("p1")>>
    /\ returned[1] = 2

(***************************************************************************)
(* Properties of a run under further configurations (SpecWide).            *)
(***************************************************************************)
\* the cursors of every id but own are the same before and after the step
OtherCursorsKept(own) ==
    \A k \in ((DOMAIN state) \cup (DOMAIN state')) \ {own} :
        /\ k \in DOMAIN state
        /\ k \in DOMAIN state'
        /\ state'[k] = state[k]

InHandler == pc \in {"login", "fetch", "detect", "commit_forum", "notify",
                     "commit_thread", "except"}

\* C32: a step of a monitor's handler changes at most the cursor stored under
\* that monitor's id; between handlers the store is not changed at all; every
\* cursor of another id (a disabled or removed monitor's, loaded from the
\* file) stays as loaded, and a save that reports success has written every
\* cursor as it is in memory.
C32_OnlyOwnCursorChanges ==
    [][/\ InHandler => OtherCursorsKept(config[idx + 1].id)
       /\ pc \in {"loop", "saved"} => state' = state
       /\ (Len(save_returns') > Len(save_returns) /\ Last(save_returns')) =>
             /\ file'.status = "ok"
             /\ load_state(file') = state]_vars
C32_Witness ==
    /\ pc = "saved" /\ Last(save_returns)
    /\ config = <<ForumMonitor>>
    /\ outcome = "notified"
    /\ DOMAIN state = DOMAIN LeftStore
    /\ state[ForumId] # LeftStore[ForumId]
    /\ state[ThreadId] = LeftStore[ThreadId]
    /\ state[OldId] = LeftStore[OldId]
    /\ load_state(file) = state

\* C33: when an exception leaves the processing of a monitor and run() returns
\* 1, save_state was not called in that run and the file is the one the run
\* found: the file changes only in a save_state call, and none was made.
C33_EscapeSkipsSave ==
    [][/\ file' # file => Len(save_returns') = Len(save_returns) + 1
       /\ (exit_code' = <<1>> /\ loads' > 0) =>
             /\ save_returns' = <<>>
             /\ file' = file]_vars
C33_Witness ==
    /\ pc = "exited" /\ exit_code = <<1>> /\ loads = 1
    /\ save_returns = <<>>
    /\ file = NoFile
    /\ delivered = <<2, 1>>
    /\ state # load_state(file)

====
